---- MODULE Spec2Model ----
(***************************************************************************)
(* Model of src/pyimpl.py: merging two keyframe lists (addKeyframes) with  *)
(* its helpers findOverlap, getValue and interval.                         *)
(*                                                                         *)
(* Keyframe objects live in a heap (id -> [frame, value]); the lists       *)
(* insertedKeys, nextKeys and keysOverlapping hold object ids, so that the *)
(* aliasing of the Python lists (keysOverlapping shares its objects with   *)
(* insertedKeys, insertedKeys.extend(nextKeys) shares them with nextKeys)  *)
(* is what the model mutates.  Frames are integers; values are exact       *)
(* rationals <<numerator, denominator>> in lowest terms, denominator > 0,  *)
(* so Python's float arithmetic is modelled without its rounding.          *)
(***************************************************************************)
EXTENDS Integers, Sequences, FiniteSets

VARIABLES heap, insertedKeys, nextKeys, keysOverlapping,
          insertedKeysInterpolatedValues, nextKeysInterpolatedValues,
          pc, raised, heap0, insertedKeys0

vars == <<heap, insertedKeys, nextKeys, keysOverlapping,
          insertedKeysInterpolatedValues, nextKeysInterpolatedValues,
          pc, raised, heap0, insertedKeys0>>

\* ---------------------------------------------------------------- bounds
\* most samples of insertedKeys and of nextKeys at the call, the largest
\* frame and the largest value of a sample
MaxLen == 3
MaxNextLen == 2
MaxTime == 3
MaxVal == 1

Times == 0..MaxTime
Values == 0..MaxVal

\* ------------------------------------------------- arithmetic on values
Abs(n) == IF n < 0 THEN -n ELSE n

RECURSIVE GCD(_, _)
GCD(a, b) == IF b = 0 THEN a ELSE GCD(b, a % b)

\* the rational n/d (d # 0) in lowest terms with a positive denominator
Norm(n, d) ==
    LET g == GCD(Abs(n), Abs(d))
        s == IF d < 0 THEN -1 ELSE 1
    IN  <<(s * n) \div g, (s * d) \div g>>

Num(n) == <<n, 1>>
Add(a, b) == Norm(a[1] * b[2] + b[1] * a[2], a[2] * b[2])
Sub(a, b) == Norm(a[1] * b[2] - b[1] * a[2], a[2] * b[2])
Mul(a, b) == Norm(a[1] * b[1], a[2] * b[2])
\* a / b for b # 0 (Python raises ZeroDivisionError for b = 0)
Div(a, b) == Norm(a[1] * b[2], a[2] * b[1])

\* ------------------------------------------------------------- Keyframe
Keyframe(frame, value) == [frame |-> frame, value |-> value]

\* the objects a list of ids refers to, under a heap
Deref(h, ids) == [i \in 1..Len(ids) |-> h[ids[i]]]

RECURSIVE Reversed(_)
Reversed(s) == IF s = <<>> THEN <<>> ELSE Append(Reversed(Tail(s)), Head(s))

\* ---------------------------------------------------------- findOverlap
\* the loop over reversed(keyList1): i is the index of key1, acc the
\* overlappingKeyList (ids), first the frame keyList2[0].frame
\* OverlapScan without the boundary sample: the scan stops at the first key
\* that is not after keyList2[0] and never appends it
RECURSIVE OverlapScanNoBoundary(_, _, _, _, _, _)
OverlapScanNoBoundary(h, keyList1, first, i, overlapping, acc) ==
    IF i = 0 THEN acc
    ELSE IF h[keyList1[i]].frame > first
         THEN OverlapScanNoBoundary(h, keyList1, first, i - 1, TRUE,
                                    Append(acc, keyList1[i]))
         ELSE acc

RECURSIVE OverlapScan(_, _, _, _, _, _)
OverlapScan(h, keyList1, first, i, overlapping, acc) ==
    IF i = 0 THEN acc
    ELSE IF h[keyList1[i]].frame > first
         THEN OverlapScan(h, keyList1, first, i - 1, TRUE, Append(acc, keyList1[i]))
         ELSE IF overlapping THEN Append(acc, keyList1[i]) ELSE acc

\* FindOverlapRaises with >= for >: equal first frames are rejected too
FindOverlapRaisesOnEqual(h, keyList1, keyList2) ==
    /\ Len(keyList1) # 0
    /\ Len(keyList2) # 0
    /\ h[keyList1[1]].frame >= h[keyList2[1]].frame

FindOverlapRaises(h, keyList1, keyList2) ==
    /\ Len(keyList1) # 0
    /\ Len(keyList2) # 0
    /\ h[keyList1[1]].frame > h[keyList2[1]].frame

findOverlap(h, keyList1, keyList2) ==
    IF Len(keyList1) = 0 \/ Len(keyList2) = 0 THEN <<>>
    ELSE Reversed(OverlapScan(h, keyList1, h[keyList2[1]].frame,
                              Len(keyList1), FALSE, <<>>))

\* ------------------------------------------------------------- getValue
\* getValue with the intercept taken from key2's value and key1's frame
getValueMixedIntercept(key1, key2, frame) ==
    LET x1 == Num(key1.frame)
        x2 == Num(key2.frame)
        y1 == key1.value
        y2 == key2.value
        dx == Sub(x2, x1)
        m  == IF dx[1] = 0 THEN Num(0) ELSE Div(Sub(y2, y1), dx)
        c  == Sub(y2, Mul(m, x1))
    IN  Add(Mul(m, Num(frame)), c)

getValue(key1, key2, frame) ==
    LET x1 == Num(key1.frame)
        y1 == key1.value
        x2 == Num(key2.frame)
        y2 == key2.value
        dx == Sub(x2, x1)
        m  == IF dx[1] = 0 THEN Num(0) ELSE Div(Sub(y2, y1), dx)
        c  == Sub(y1, Mul(m, x1))
    IN  Add(Mul(m, Num(frame)), c)

\* ------------------------------------------------------------- interval
NoKey == Keyframe(0, Num(0))
\* what interval returns: a pair of keyframes ("pair"), (None, None)
\* ("nonepair"), or None when the function falls off its end ("none")
Pair(k1, k2) == [tag |-> "pair", k1 |-> k1, k2 |-> k2]
NonePair == [tag |-> "nonepair", k1 |-> NoKey, k2 |-> NoKey]
ReturnsNone == [tag |-> "none", k1 |-> NoKey, k2 |-> NoKey]

RECURSIVE IntervalScan(_, _, _)
IntervalScan(keyList, frame, i) ==
    IF i > Len(keyList) - 1 THEN ReturnsNone
    ELSE IF keyList[i].frame <= frame /\ frame <= keyList[i + 1].frame
         THEN Pair(keyList[i], keyList[i + 1])
         ELSE IntervalScan(keyList, frame, i + 1)

\* interval without the test for an empty list: indexing the empty list
\* fails, which the caller sees as no pair at all
intervalNoEmptyCheck(keyList, frame) ==
    IF Len(keyList) = 0 THEN ReturnsNone
    ELSE IF keyList[1].frame > frame THEN Pair(keyList[1], keyList[1])
    ELSE IF keyList[Len(keyList)].frame < frame
         THEN Pair(keyList[Len(keyList)], keyList[Len(keyList)])
    ELSE IntervalScan(keyList, frame, 1)

\* interval that answers a frame after the last key with the whole range
\* (first, last) instead of (last, last)
intervalRightWholeRange(keyList, frame) ==
    IF Len(keyList) = 0 THEN NonePair
    ELSE IF keyList[1].frame > frame THEN Pair(keyList[1], keyList[1])
    ELSE IF keyList[Len(keyList)].frame < frame
         THEN Pair(keyList[1], keyList[Len(keyList)])
    ELSE IntervalScan(keyList, frame, 1)

interval(keyList, frame) ==
    IF Len(keyList) = 0 THEN NonePair
    ELSE IF keyList[1].frame > frame THEN Pair(keyList[1], keyList[1])
    ELSE IF keyList[Len(keyList)].frame < frame
         THEN Pair(keyList[Len(keyList)], keyList[Len(keyList)])
    ELSE IntervalScan(keyList, frame, 1)

\* --------------------------------------------------------- addKeyframes
\* one interpolation loop of addKeyframes: every key of keys is evaluated
\* against the list against; (None, None) skips the key, a Keyframe is
\* appended otherwise. Unpacking a None result raises TypeError.
RECURSIVE InterpolateLoop(_, _, _, _)
InterpolateLoop(keys, against, i, acc) ==
    IF i > Len(keys) THEN [err |-> FALSE, vals |-> acc]
    ELSE LET inv == interval(against, keys[i].frame)
         IN  IF inv.tag = "none" THEN [err |-> TRUE, vals |-> acc]
             ELSE IF inv.tag = "nonepair"
                  THEN InterpolateLoop(keys, against, i + 1, acc)
                  ELSE InterpolateLoop(keys, against, i + 1,
                           Append(acc, Keyframe(keys[i].frame,
                                      getValue(inv.k1, inv.k2, keys[i].frame))))

Min(a, b) == IF a < b THEN a ELSE b

\* AddLoop that skips the first pair of the zip
AddLoopSkipFirst(h, ids, interp) ==
    LET n == Min(Len(ids), Len(interp))
    IN  [id \in DOMAIN h |->
            IF \E j \in 2..n : ids[j] = id
            THEN LET j == CHOOSE j \in 2..n : ids[j] = id
                 IN  [h[id] EXCEPT !.value = Add(@, interp[j].value)]
            ELSE h[id]]

\* for key, interp in zip(ids, interp): key.value += interp.value
AddLoop(h, ids, interp) ==
    LET n == Min(Len(ids), Len(interp))
    IN  [id \in DOMAIN h |->
            IF \E j \in 1..n : ids[j] = id
            THEN LET j == CHOOSE j \in 1..n : ids[j] = id
                 IN  [h[id] EXCEPT !.value = Add(@, interp[j].value)]
            ELSE h[id]]

\* list.sort(key=lambda keyframe: keyframe.frame): a stable sort
RECURSIVE InsertByFrame(_, _, _)
InsertByFrame(h, sorted, id) ==
    IF sorted = <<>> THEN <<id>>
    ELSE IF h[Head(sorted)].frame <= h[id].frame
         THEN <<Head(sorted)>> \o InsertByFrame(h, Tail(sorted), id)
         ELSE <<id>> \o sorted

RECURSIVE SortLoop(_, _, _)
SortLoop(h, ids, sorted) ==
    IF ids = <<>> THEN sorted
    ELSE SortLoop(h, Tail(ids), InsertByFrame(h, sorted, Head(ids)))

\* SortByFrame that leaves the list as extended
SortByFrameUnsorted(h, ids) == ids

SortByFrame(h, ids) == SortLoop(h, ids, <<>>)

\* addKeyframes runs alone and to completion; it is modelled as its
\* statements in program order, pc naming the next one, so that what holds
\* between two statements can be stated. pc = "done" is its return,
\* pc = "raised" an exception leaving it (raised names the exception).

\* keysOverlapping = findOverlap(insertedKeys, nextKeys)
CallFindOverlap ==
    /\ pc = "start"
    /\ IF FindOverlapRaises(heap, insertedKeys, nextKeys)
       THEN /\ pc' = "raised"
            /\ raised' = "ValueError"
            /\ UNCHANGED keysOverlapping
       ELSE /\ pc' = "interpNext"
            /\ keysOverlapping' = findOverlap(heap, insertedKeys, nextKeys)
            /\ UNCHANGED raised
    /\ UNCHANGED <<heap, insertedKeys, nextKeys, insertedKeysInterpolatedValues,
                   nextKeysInterpolatedValues, heap0, insertedKeys0>>

\* InterpolateNext fused with the addition loop: each value is added to
\* nextKeys as soon as it is computed
InterpolateNextEager ==
    /\ pc = "interpNext"
    /\ LET r == InterpolateLoop(Deref(heap, nextKeys),
                                Deref(heap, keysOverlapping), 1, <<>>)
       IN  IF r.err
           THEN /\ pc' = "raised"
                /\ raised' = "TypeError"
                /\ UNCHANGED <<nextKeysInterpolatedValues, heap>>
           ELSE /\ pc' = "interpOverlap"
                /\ nextKeysInterpolatedValues' = r.vals
                /\ heap' = AddLoop(heap, nextKeys, r.vals)
                /\ UNCHANGED raised
    /\ UNCHANGED <<insertedKeys, nextKeys, keysOverlapping,
                   insertedKeysInterpolatedValues, heap0, insertedKeys0>>

\* for key in nextKeys: ... interval(keysOverlapping, key.frame)
InterpolateNext ==
    /\ pc = "interpNext"
    /\ LET r == InterpolateLoop(Deref(heap, nextKeys),
                                Deref(heap, keysOverlapping), 1, <<>>)
       IN  IF r.err
           THEN /\ pc' = "raised"
                /\ raised' = "TypeError"
                /\ UNCHANGED nextKeysInterpolatedValues
           ELSE /\ pc' = "interpOverlap"
                /\ nextKeysInterpolatedValues' = r.vals
                /\ UNCHANGED raised
    /\ UNCHANGED <<heap, insertedKeys, nextKeys, keysOverlapping,
                   insertedKeysInterpolatedValues, heap0, insertedKeys0>>

\* for key in keysOverlapping: ... interval(nextKeys, key.frame)
InterpolateOverlap ==
    /\ pc = "interpOverlap"
    /\ LET r == InterpolateLoop(Deref(heap, keysOverlapping),
                                Deref(heap, nextKeys), 1, <<>>)
       IN  IF r.err
           THEN /\ pc' = "raised"
                /\ raised' = "TypeError"
                /\ UNCHANGED insertedKeysInterpolatedValues
           ELSE /\ pc' = "addOverlap"
                /\ insertedKeysInterpolatedValues' = r.vals
                /\ UNCHANGED raised
    /\ UNCHANGED <<heap, insertedKeys, nextKeys, keysOverlapping,
                   nextKeysInterpolatedValues, heap0, insertedKeys0>>

\* for key, interp in zip(keysOverlapping, insertedKeysInterpolatedValues)
AddOverlap ==
    /\ pc = "addOverlap"
    /\ heap' = AddLoop(heap, keysOverlapping, insertedKeysInterpolatedValues)
    /\ pc' = "addNext"
    /\ UNCHANGED <<insertedKeys, nextKeys, keysOverlapping,
                   insertedKeysInterpolatedValues, nextKeysInterpolatedValues,
                   raised, heap0, insertedKeys0>>

\* for key, interp in zip(nextKeys, nextKeysInterpolatedValues)
AddNext ==
    /\ pc = "addNext"
    /\ heap' = AddLoop(heap, nextKeys, nextKeysInterpolatedValues)
    /\ pc' = "extend"
    /\ UNCHANGED <<insertedKeys, nextKeys, keysOverlapping,
                   insertedKeysInterpolatedValues, nextKeysInterpolatedValues,
                   raised, heap0, insertedKeys0>>

\* insertedKeys.extend(nextKeys); insertedKeys.sort(key=...)
ExtendSort ==
    /\ pc = "extend"
    /\ insertedKeys' = SortByFrame(heap, insertedKeys \o nextKeys)
    /\ pc' = "done"
    /\ UNCHANGED <<heap, nextKeys, keysOverlapping,
                   insertedKeysInterpolatedValues, nextKeysInterpolatedValues,
                   raised, heap0, insertedKeys0>>

\* ----------------------------------------------------------------- main
vals == <<<<0, 0>>, <<15, 5>>, <<18, 5>>, <<33, 0>>>>
delta == 9
origKeys == [i \in 1..Len(vals) |-> Keyframe(vals[i][1], Num(vals[i][2]))]
newKeys == [i \in 1..Len(origKeys) |->
               Keyframe(origKeys[i].frame + delta, origKeys[i].value)]

\* ------------------------------------------------------- the call's inputs
\* the elements of a set of frames in ascending order
RECURSIVE Ascending(_)
Ascending(T) ==
    IF T = {} THEN <<>>
    ELSE LET lo == CHOOSE t \in T : \A u \in T : t <= u
         IN  <<lo>> \o Ascending(T \ {lo})

\* the well-formed curves of the bounded model: at most n samples,
\* strictly ascending frames in Times, values in Values
Curves(n) ==
    { [i \in 1..Len(fs) |-> Keyframe(fs[i], Num(v[fs[i]]))] :
        fs \in {Ascending(T) : T \in {S \in SUBSET Times : Cardinality(S) <= n}},
        v \in [Times -> Values] }

\* the state at the call addKeyframes(a, b): a's objects get the ids
\* 1..Len(a), b's the ids Len(a)+1..Len(a)+Len(b)
Call(a, b) ==
    /\ heap = [id \in 1..(Len(a) + Len(b)) |->
                  IF id <= Len(a) THEN a[id] ELSE b[id - Len(a)]]
    /\ insertedKeys = [i \in 1..Len(a) |-> i]
    /\ nextKeys = [i \in 1..Len(b) |-> Len(a) + i]
    /\ keysOverlapping = <<>>
    /\ insertedKeysInterpolatedValues = <<>>
    /\ nextKeysInterpolatedValues = <<>>
    /\ pc = "start"
    /\ raised = "none"
    /\ heap0 = heap
    /\ insertedKeys0 = insertedKeys

Init ==
    \/ \E a \in Curves(MaxLen), b \in Curves(MaxNextLen) : Call(a, b)
    \/ Call(origKeys, newKeys)

Next ==
    \/ CallFindOverlap
    \/ InterpolateNext
    \/ InterpolateOverlap
    \/ AddOverlap
    \/ AddNext
    \/ ExtendSort

Spec == Init /\ [][Next]_vars

\* ============================================================ properties
\* the two curves as they were passed to addKeyframes, and as they are now
Inserted0 == Deref(heap0, insertedKeys0)
Next0 == Deref(heap0, nextKeys)
InsertedNow == Deref(heap, insertedKeys)

BothNonEmpty == insertedKeys0 # <<>> /\ nextKeys # <<>>
\* the inputs for which the merge is specified to succeed
Ordered == BothNonEmpty => Inserted0[1].frame <= Next0[1].frame

FramesOf(curve) == {curve[i].frame : i \in 1..Len(curve)}
InDomain(curve, t) ==
    curve # <<>> /\ curve[1].frame <= t /\ t <= curve[Len(curve)].frame

\* the value at t of the piecewise-linear function through a curve with
\* strictly ascending frames, for t in the curve's domain
PLValue(curve, t) ==
    IF \E i \in 1..Len(curve) : curve[i].frame = t
    THEN curve[CHOOSE i \in 1..Len(curve) : curve[i].frame = t].value
    ELSE LET i == CHOOSE i \in 1..(Len(curve) - 1) :
                     curve[i].frame < t /\ t < curve[i + 1].frame
         IN  Add(curve[i].value,
                 Div(Mul(Sub(curve[i + 1].value, curve[i].value),
                         Num(t - curve[i].frame)),
                     Num(curve[i + 1].frame - curve[i].frame)))

\* index in Inserted0 of the latest sample with frame <= Next0[1].frame
BoundaryIndex ==
    CHOOSE i \in 1..Len(Inserted0) :
        /\ Inserted0[i].frame <= Next0[1].frame
        /\ \A j \in 1..Len(Inserted0) :
               Inserted0[j].frame <= Next0[1].frame => j <= i

Count(curve, t) == Cardinality({i \in 1..Len(curve) : curve[i].frame = t})

\* C1: after a merge of two non-empty ordered curves, every sample of
\* insertedKeys at an original sample time t lying in both curves' domains
\* has the value Inserted0(t) + Next0(t).
C1_SumCorrect ==
    (pc = "done" /\ BothNonEmpty /\ Ordered) =>
        \A t \in FramesOf(Inserted0) \cup FramesOf(Next0) :
            (InDomain(Inserted0, t) /\ InDomain(Next0, t)) =>
                \A i \in 1..Len(InsertedNow) :
                    InsertedNow[i].frame = t =>
                        InsertedNow[i].value =
                            Add(PLValue(Inserted0, t), PLValue(Next0, t))

\* the call main() makes
MainCall == Inserted0 = origKeys /\ Next0 = newKeys
Samples(s) == [i \in 1..Len(s) |-> Keyframe(s[i][1], Norm(s[i][2], s[i][3]))]

\* C2 as stated: main's merge ends with (33, 1.2) in insertedKeys, 1.2
\* being the cross-value added to inserted's sample at 33.
C2_E2E_AsStated ==
    (MainCall /\ pc = "done") =>
        /\ InsertedNow = Samples(<<<<0, 0, 1>>, <<9, 3, 1>>, <<15, 7, 1>>,
                                   <<18, 8, 1>>, <<24, 8, 1>>, <<27, 7, 1>>,
                                   <<33, 6, 5>>, <<42, 0, 1>>>>)
        /\ nextKeysInterpolatedValues =
               Samples(<<<<9, 3, 1>>, <<24, 3, 1>>, <<27, 2, 1>>, <<42, 0, 1>>>>)
        /\ insertedKeysInterpolatedValues =
               Samples(<<<<0, 0, 1>>, <<15, 2, 1>>, <<18, 3, 1>>, <<33, 6, 5>>>>)

\* C2 amended: main's merge ends with insertedKeys = [(0,0), (9,3), (15,7),
\* (18,8), (24,8), (27,7), (33,3), (42,0)]; the cross-values added are
\* 9->3, 24->3, 27->2, 42->0 to next and 0->0, 15->2, 18->3, 33->3 to inserted.
C2_E2E ==
    (MainCall /\ pc = "done") =>
        /\ InsertedNow = Samples(<<<<0, 0, 1>>, <<9, 3, 1>>, <<15, 7, 1>>,
                                   <<18, 8, 1>>, <<24, 8, 1>>, <<27, 7, 1>>,
                                   <<33, 3, 1>>, <<42, 0, 1>>>>)
        /\ nextKeysInterpolatedValues =
               Samples(<<<<9, 3, 1>>, <<24, 3, 1>>, <<27, 2, 1>>, <<42, 0, 1>>>>)
        /\ insertedKeysInterpolatedValues =
               Samples(<<<<0, 0, 1>>, <<15, 2, 1>>, <<18, 3, 1>>, <<33, 3, 1>>>>)

C2_Witness == MainCall /\ pc = "done" /\ Len(insertedKeys) = 8

\* C3: once findOverlap has been called on two non-empty curves, ValueError
\* has been raised iff inserted[0].frame > next[0].frame; with an empty
\* curve it is never raised.
C3_InvalidOrder ==
    pc # "start" =>
        /\ BothNonEmpty =>
               (raised = "ValueError" <=> Inserted0[1].frame > Next0[1].frame)
        /\ ~BothNonEmpty => raised # "ValueError"
        /\ raised = "ValueError" => pc = "raised"

C3_Witness == pc = "raised" /\ raised = "ValueError"

\* C4: on well-formed inputs (either curve empty, or inserted[0].frame <=
\* next[0].frame) no step of the merge fails: interval returns a pair (or
\* (None, None) for an empty list) at every call the merge makes, so nothing
\* is raised.
C4_Totality == Ordered => raised = "none"

\* C5: after a merge that completes, the frames of insertedKeys are the
\* ascending sort of the frames of both original curves (as a multiset),
\* and nextKeys has its original length and frames.
C5_Shape ==
    pc = "done" =>
        /\ Len(insertedKeys) = Len(insertedKeys0) + Len(nextKeys)
        /\ \A i \in 1..(Len(InsertedNow) - 1) :
               InsertedNow[i].frame <= InsertedNow[i + 1].frame
        /\ \A t \in FramesOf(InsertedNow) \cup FramesOf(Inserted0) \cup FramesOf(Next0) :
               Count(InsertedNow, t) = Count(Inserted0, t) + Count(Next0, t)
        /\ \A i \in 1..Len(nextKeys) :
               heap[nextKeys[i]].frame = Next0[i].frame

\* both curves have samples and their frames interleave
C5_Witness ==
    /\ pc = "done"
    /\ Len(insertedKeys0) >= 2
    /\ Len(nextKeys) >= 2
    /\ Inserted0[Len(Inserted0)].frame > Next0[1].frame
    /\ Inserted0[Len(Inserted0)].frame < Next0[Len(Next0)].frame

\* C6: if either curve is empty, no error is raised, no sample value ever
\* changes, and the merge leaves in insertedKeys the concatenation of the
\* two curves (the non-empty one, as it was).
C6_EmptyIdentity ==
    (insertedKeys0 = <<>> \/ nextKeys = <<>>) =>
        /\ raised = "none"
        /\ heap = heap0
        /\ pc # "done" => insertedKeys = insertedKeys0
        /\ pc = "done" => insertedKeys = insertedKeys0 \o nextKeys

C6_Witness ==
    /\ pc = "done"
    /\ \/ nextKeys = <<>> /\ Len(insertedKeys0) >= 2
       \/ insertedKeys0 = <<>> /\ Len(nextKeys) >= 2

\* C7: for non-empty ordered curves findOverlap returns (pc = "interpNext"
\* is the state it returns to) a contiguous suffix
\* of inserted: nothing when inserted's last frame <= next[0].frame, else
\* the boundary sample (the latest with frame <= next[0].frame) followed by
\* every sample with frame > next[0].frame.
C7_Overlap ==
    (pc = "interpNext" /\ BothNonEmpty) =>
        LET n == Len(insertedKeys0)
            f == Next0[1].frame
        IN  IF Inserted0[n].frame <= f
            THEN keysOverlapping = <<>>
            ELSE /\ keysOverlapping =
                        [k \in 1..(n - BoundaryIndex + 1) |->
                            insertedKeys0[BoundaryIndex + k - 1]]
                 /\ Len(keysOverlapping) >= 2
                 /\ Len(keysOverlapping) <= n
                 /\ heap0[keysOverlapping[1]].frame <= f
                 /\ \A k \in 2..Len(keysOverlapping) :
                        heap0[keysOverlapping[k]].frame > f

\* an overlap that is a proper suffix of inserted
C7_Witness ==
    /\ pc = "interpNext"
    /\ Len(keysOverlapping) >= 2
    /\ Len(keysOverlapping) < Len(insertedKeys0)

\* the value recorded for the object id in the list paired with ids, 0 when
\* there is none
Recorded(ids, recorded, id) ==
    IF \E j \in 1..Len(recorded) : j <= Len(ids) /\ ids[j] = id
    THEN recorded[CHOOSE j \in 1..Len(recorded) : j <= Len(ids) /\ ids[j] = id].value
    ELSE Num(0)

\* C8: no sample value changes before both interpolation passes have
\* finished (pc = "addOverlap"), the values recorded by then are those
\* computed from the original values, every sample ends up with its original
\* value plus the value recorded for it, and insertedKeys is extended and
\* sorted only after all additions.
C8_OrderOfOperations ==
    /\ pc \in {"start", "interpNext", "interpOverlap", "addOverlap"} => heap = heap0
    /\ pc # "done" => insertedKeys = insertedKeys0
    /\ pc = "addOverlap" =>
           /\ nextKeysInterpolatedValues =
                  InterpolateLoop(Next0, Deref(heap0, keysOverlapping), 1, <<>>).vals
           /\ insertedKeysInterpolatedValues =
                  InterpolateLoop(Deref(heap0, keysOverlapping), Next0, 1, <<>>).vals
    /\ pc \in {"extend", "done"} =>
           \A id \in DOMAIN heap :
               heap[id].value =
                   Add(heap0[id].value,
                       Add(Recorded(keysOverlapping, insertedKeysInterpolatedValues, id),
                           Recorded(nextKeys, nextKeysInterpolatedValues, id)))

\* both passes recorded values and the additions changed both curves
C8_Witness ==
    /\ pc = "extend"
    /\ \E j \in 1..Len(keysOverlapping) :
           heap[keysOverlapping[j]].value # heap0[keysOverlapping[j]].value
    /\ \E j \in 1..Len(nextKeys) :
           heap[nextKeys[j]].value # heap0[nextKeys[j]].value

\* C9: once both interpolation passes have run, for each of the two curves
\* they evaluated (nextKeys and keysOverlapping): interval returns
\* (first, first) for a t before the first sample and (last, last) for a t
\* after the last one, and getValue on such a pair (s, s) is s.value for
\* every t.
C9_FlatExtrapolation ==
    pc = "addOverlap" =>
        \A ids \in {nextKeys, keysOverlapping} :
            ids # <<>> =>
                LET curve == Deref(heap, ids)
                    lo == curve[1].frame
                    hi == curve[Len(curve)].frame
                IN  \A t \in ((lo - 1)..(hi + 1)) \cup Times :
                        /\ t < lo => interval(curve, t) = Pair(curve[1], curve[1])
                        /\ t > hi => interval(curve, t) =
                                         Pair(curve[Len(curve)], curve[Len(curve)])
                        /\ \A s \in {curve[1], curve[Len(curve)]} :
                               getValue(s, s, t) = s.value

\* the merge evaluated next to the left of its first sample, and the
\* overlap to the right of its last sample
C9_Witness ==
    /\ pc = "addOverlap"
    /\ keysOverlapping # <<>>
    /\ heap[keysOverlapping[1]].frame < heap[nextKeys[1]].frame
    /\ heap[nextKeys[1]].value # Num(0)
    /\ insertedKeysInterpolatedValues[1].value = heap[nextKeys[1]].value
    /\ heap[nextKeys[Len(nextKeys)]].frame >
           heap[keysOverlapping[Len(keysOverlapping)]].frame
    /\ nextKeysInterpolatedValues[Len(nextKeys)].value =
           heap[keysOverlapping[Len(keysOverlapping)]].value

====
